---- MODULE Spec2Model ----
(***************************************************************************)
(* A model of repo-issue-ranker (src/src/main.rs): one sequential run of   *)
(* main, cut at each await.  The GitHub API is the environment: every      *)
(* response the program receives is recorded in `api`, keyed by the URL    *)
(* that was requested, so that a second run can be given the same          *)
(* responses again.                                                        *)
(***************************************************************************)
EXTENDS Integers, Sequences, FiniteSets, TLC

\* Bounds of the model.
MaxIssues == 2       \* records in one issues response (the code asks for per_page=100)
MaxReactions == 2    \* records in one reactions response

VARIABLES
    token,      \* GITHUB_TOKEN is set in the environment (after dotenv)
    api,        \* captured API responses: URL -> response
    pc,         \* position of main
    requests,   \* the URLs sent so far, in order
    responses,  \* how many of them have been answered (response or failure)
    notice,     \* the "Please try again later ..." text of get_issues
    issues,     \* main's `issues`: the Vec<Issue> get_issues returned
    idx,        \* position of `for issue in &issues` (1-based)
    map,        \* main's `map`: issue number -> count
    ranking,    \* the printed ranking lines: <<position, number, score>>
    prev        \* outcome of the previous run of the program, if any

vars == <<token, api, pc, requests, responses, notice, issues, idx, map, ranking, prev>>

----------------------------------------------------------------------------
\* Data the API can send.

IssueNumbers == 1..MaxIssues

\* "pull_request" of an issue record: absent, or an object with some content.
PullRequestValues == {"absent", "empty_object", "object_with_url"}

IssueRecords == [number : IssueNumbers, pull_request : PullRequestValues]

SeqsUpTo(S, n) == UNION {[1..k -> S] : k \in 0..n}

\* Issue numbers are unique in a repository.  The program uses them only as
\* keys (it never compares two of them but for equality), so the bodies are
\* taken up to a renaming of the numbers: in descending order, which is the
\* order the API's default sort (newest first) gives.
DistinctNumbers(s) == \A i, j \in DOMAIN s : i < j => s[i].number > s[j].number

IssueBodies == {s \in SeqsUpTo(IssueRecords, MaxIssues) : DistinctNumbers(s)}

Contents == {"+1", "-1", "laugh"}

ReactionBodies == SeqsUpTo(Contents, MaxReactions)

\* x-ratelimit-reset of a failed response: missing, bytes that are not visible
\* ASCII, text that is no i64, an i64 outside chrono's range, or a timestamp,
\* written as its distance in seconds from the Utc::now() the code reads.
ResetSeconds == {-5, 30, 90}
ResetHeaders == {[kind |-> k, secs |-> 0] : k \in {"absent", "opaque", "text", "huge"}}
                \cup {[kind |-> "timestamp", secs |-> s] : s \in ResetSeconds}

NoBody == <<>>
NoHeader == [kind |-> "absent", secs |-> 0]

\* A response to the issues request: 2xx with a decodable body, 2xx with a body
\* that is no Vec<Issue>, a non-2xx status, or no response at all.
IssuesResponses ==
    {[kind |-> "ok", body |-> b, reset |-> NoHeader] : b \in IssueBodies}
    \cup {[kind |-> "malformed", body |-> NoBody, reset |-> NoHeader]}
    \cup {[kind |-> "status", body |-> NoBody, reset |-> h] : h \in ResetHeaders}
    \cup {[kind |-> "transport", body |-> NoBody, reset |-> NoHeader]}

ReactionsResponses ==
    {[kind |-> "ok", body |-> b, reset |-> NoHeader] : b \in ReactionBodies}
    \cup {[kind |-> "malformed", body |-> NoBody, reset |-> NoHeader]}
    \cup {[kind |-> "status", body |-> NoBody, reset |-> h] :
              h \in {NoHeader, [kind |-> "timestamp", secs |-> 30]}}
    \cup {[kind |-> "transport", body |-> NoBody, reset |-> NoHeader]}

----------------------------------------------------------------------------
\* URLs.

get_api_url == [endpoint |-> "issues", number |-> 0]

reactions_url(n) == [endpoint |-> "reactions", number |-> n]

----------------------------------------------------------------------------
\* get_issues, after the response has arrived.

NoNotice == [unit |-> "none", n |-> 0]

\* Truncating division, as chrono's num_minutes.
Minutes(secs) == IF secs >= 0 THEN secs \div 60 ELSE -((-secs) \div 60)

\* The block that builds the "Please try again later ..." text from the
\* x-ratelimit-reset header; each `expect` in it can panic.
wait_estimate(reset) ==
    CASE reset.kind = "absent" -> [panic |-> TRUE, text |-> NoNotice]
      [] reset.kind = "opaque" -> [panic |-> FALSE, text |-> [unit |-> "sometime", n |-> 0]]
      [] reset.kind = "text" -> [panic |-> TRUE, text |-> NoNotice]
      [] reset.kind = "huge" -> [panic |-> TRUE, text |-> NoNotice]
      [] OTHER ->
            IF Minutes(reset.secs) > 0
            THEN [panic |-> FALSE, text |-> [unit |-> "minute", n |-> Minutes(reset.secs)]]
            ELSE [panic |-> FALSE, text |-> [unit |-> "second", n |-> reset.secs]]

\* Mutant of is_none: an empty pull_request object is taken for none.
is_none_or_empty(pull_request) == pull_request \in {"absent", "empty_object"}

is_none(pull_request) == pull_request = "absent"

keep_issue(issue) == is_none(issue.pull_request)

\* What get_issues does with the response r: the Vec it returns, the text it
\* prints, or a panic.
get_issues(r) ==
    CASE r.kind = "ok" ->
            [panic |-> FALSE, value |-> SelectSeq(r.body, keep_issue), text |-> NoNotice]
      [] r.kind = "malformed" ->
            [panic |-> TRUE, value |-> <<>>, text |-> NoNotice]
      [] r.kind = "status" ->
            [panic |-> wait_estimate(r.reset).panic, value |-> <<>>,
             text |-> wait_estimate(r.reset).text]
      [] OTHER ->
            [panic |-> FALSE, value |-> <<>>, text |-> NoNotice]

\* Mutant of get_reactions: a failed request panics instead of giving an empty Vec.
get_reactions_strict(r) ==
    CASE r.kind = "ok" -> [panic |-> FALSE, value |-> r.body]
      [] OTHER -> [panic |-> TRUE, value |-> <<>>]

\* Mutant of get_reactions: a body that does not decode gives an empty Vec.
get_reactions_lenient(r) ==
    CASE r.kind = "ok" -> [panic |-> FALSE, value |-> r.body]
      [] OTHER -> [panic |-> FALSE, value |-> <<>>]

\* What get_reactions does with the response r.
get_reactions(r) ==
    CASE r.kind = "ok" -> [panic |-> FALSE, value |-> r.body]
      [] r.kind = "malformed" -> [panic |-> TRUE, value |-> <<>>]
      [] OTHER -> [panic |-> FALSE, value |-> <<>>]

----------------------------------------------------------------------------
\* Scoring and ranking.

\* Mutant of weight: every content but "-1" counts as an upvote.
weight_default_up(content) ==
    CASE content = "-1" -> -1
      [] OTHER -> 1

weight(content) ==
    CASE content = "+1" -> 1
      [] content = "-1" -> -1
      [] OTHER -> 0

\* map.entry(number).or_insert(0)
or_insert(m, number) == IF number \in DOMAIN m THEN m ELSE (number :> 0) @@ m

\* Mutant of tally: the entry is made before the loop over the reactions.
RECURSIVE tally_eager(_, _, _)
tally_eager(m, number, reactions) ==
    IF reactions = <<>> THEN or_insert(m, number)
    ELSE LET e == or_insert(m, number)
             c == [e EXCEPT ![number] = @ + weight(Head(reactions))]
         IN tally_eager(c, number, Tail(reactions))

\* One pass of `for reaction in &reactions` for the issue `number`.
RECURSIVE tally(_, _, _)
tally(m, number, reactions) ==
    IF reactions = <<>> THEN m
    ELSE LET e == or_insert(m, number)
             c == [e EXCEPT ![number] = @ + weight(Head(reactions))]
         IN tally(c, number, Tail(reactions))

\* Mutant of before: the comparator a.1.cmp(b.1), ascending.
before_ascending(a, b) == a[2] < b[2]

\* The comparator of sort_by, |a, b| b.1.cmp(a.1): a is ordered before b.
before(a, b) == a[2] > b[2]

\* Insert e behind every element it is not ordered before.
RECURSIVE insert(_, _)
insert(sorted, e) ==
    IF sorted = <<>> THEN <<e>>
    ELSE IF before(e, Head(sorted)) THEN <<e>> \o sorted
    ELSE <<Head(sorted)>> \o insert(Tail(sorted), e)

\* Mutant of sort_by: the Vec is printed as collected.
sort_by_none(v) == v

\* Vec::sort_by is a stable sort.
RECURSIVE sort_by(_)
sort_by(v) ==
    IF v = <<>> THEN <<>>
    ELSE insert(sort_by(SubSeq(v, 1, Len(v) - 1)), v[Len(v)])

\* map.iter(): a HashMap with the default RandomState yields its entries in an
\* order that differs from run to run.
IterOrders(m) ==
    {o \in [1..Cardinality(DOMAIN m) -> DOMAIN m] : \A i, j \in DOMAIN o : i # j => o[i] # o[j]}

map_vec(m, order) == sort_by([i \in DOMAIN order |-> <<order[i], m[order[i]]>>])

\* The lines "#<position> - <number> with <score> upvotes!".
printed(v) == [i \in DOMAIN v |-> <<i, v[i][1], v[i][2]>>]

----------------------------------------------------------------------------
\* The run.

NoRun == [pc |-> "none", map |-> <<>>, ranking |-> <<>>]

Init ==
    /\ token \in BOOLEAN
    /\ api = <<>>
    /\ pc = "start"
    /\ requests = <<>>
    /\ responses = 0
    /\ notice = NoNotice
    /\ issues = <<>>
    /\ idx = 1
    /\ map = <<>>
    /\ ranking = <<>>
    /\ prev = NoRun

\* Mutant of send_request: the request goes out before the token is read.
send_request_then_token(url, awaiting) ==
    /\ requests' = Append(requests, url)
    /\ pc' = IF token THEN awaiting ELSE "panicked"

\* send_request up to its await: the token is read first, then the request
\* goes out and the caller waits at `awaiting`.
send_request(url, awaiting) ==
    IF token
    THEN /\ requests' = Append(requests, url)
         /\ pc' = awaiting
    ELSE /\ pc' = "panicked"
         /\ UNCHANGED requests

\* The API answers url with r: a URL that was answered before (in an earlier
\* run) gets the captured response again.
Answered(url, r) ==
    /\ url \in DOMAIN api => r = api[url]
    /\ api' = (url :> r) @@ api
    /\ responses' = responses + 1

\* main calls get_issues, which calls send_request.
RequestIssues ==
    /\ pc = "start"
    /\ send_request(get_api_url, "await_issues")
    /\ UNCHANGED <<token, api, responses, notice, issues, idx, map, ranking, prev>>

\* The rest of get_issues, and main's `let issues = ...`.
ReceiveIssues ==
    /\ pc = "await_issues"
    /\ \E r \in IssuesResponses :
          /\ Answered(get_api_url, r)
          /\ IF get_issues(r).panic
             THEN /\ pc' = "panicked"
                  /\ UNCHANGED <<issues, notice>>
             ELSE /\ pc' = "loop"
                  /\ issues' = get_issues(r).value
                  /\ notice' = get_issues(r).text
    /\ UNCHANGED <<token, requests, idx, map, ranking, prev>>

\* `for issue in &issues`: get_reactions for the next issue, up to the await.
RequestReactions ==
    /\ pc = "loop"
    /\ idx <= Len(issues)
    /\ send_request(reactions_url(issues[idx].number), "await_reactions")
    /\ UNCHANGED <<token, api, responses, notice, issues, idx, map, ranking, prev>>

\* Mutant of ReceiveReactions: a failed request is sent again.
ReceiveReactions_retry ==
    /\ pc = "await_reactions"
    /\ \E r \in ReactionsResponses :
          /\ Answered(reactions_url(issues[idx].number), r)
          /\ IF get_reactions(r).panic
             THEN /\ pc' = "panicked"
                  /\ UNCHANGED <<idx, map>>
             ELSE IF r.kind # "ok"
             THEN /\ pc' = "loop"
                  /\ UNCHANGED <<idx, map>>
             ELSE /\ pc' = "loop"
                  /\ map' = tally(map, issues[idx].number, get_reactions(r).value)
                  /\ idx' = idx + 1
    /\ UNCHANGED <<token, requests, notice, issues, ranking, prev>>

\* The rest of get_reactions, and the inner loop over the reactions.
ReceiveReactions ==
    /\ pc = "await_reactions"
    /\ \E r \in ReactionsResponses :
          /\ Answered(reactions_url(issues[idx].number), r)
          /\ IF get_reactions(r).panic
             THEN /\ pc' = "panicked"
                  /\ UNCHANGED <<idx, map>>
             ELSE /\ pc' = "loop"
                  /\ map' = tally(map, issues[idx].number, get_reactions(r).value)
                  /\ idx' = idx + 1
    /\ UNCHANGED <<token, requests, notice, issues, ranking, prev>>

\* After the loop: collect the map, sort, print.
Report ==
    /\ pc = "loop"
    /\ idx > Len(issues)
    /\ \E order \in IterOrders(map) : ranking' = printed(map_vec(map, order))
    /\ pc' = "done"
    /\ UNCHANGED <<token, api, requests, responses, notice, issues, idx, map, prev>>

\* The program is started again, in the same environment and against an API
\* that gives the captured responses.
Rerun ==
    /\ pc \in {"done", "panicked"}
    /\ prev = NoRun
    /\ prev' = [pc |-> pc, map |-> map, ranking |-> ranking]
    /\ pc' = "start"
    /\ requests' = <<>>
    /\ responses' = 0
    /\ notice' = NoNotice
    /\ issues' = <<>>
    /\ idx' = 1
    /\ map' = <<>>
    /\ ranking' = <<>>
    /\ UNCHANGED <<token, api>>

Next ==
    \/ RequestIssues
    \/ ReceiveIssues
    \/ RequestReactions
    \/ ReceiveReactions
    \/ Report

Spec == Init /\ [][Next]_vars

NextRerun == Next \/ Rerun

SpecRerun == Init /\ [][NextRerun]_vars

----------------------------------------------------------------------------
\* What the run has seen of the API, read off `api`.

Processed(n) == \E i \in 1..(idx - 1) : i <= Len(issues) /\ issues[i].number = n

\* The reactions fetched for issue n so far in this run.
Fetched(n) ==
    IF Processed(n) /\ reactions_url(n) \in DOMAIN api
       /\ api[reactions_url(n)].kind = "ok"
    THEN api[reactions_url(n)].body
    ELSE <<>>

Count(s, c) == Cardinality({i \in DOMAIN s : s[i] = c})

\* The records of the issues response, once it has arrived with a 2xx status
\* and a decodable body.
Returned ==
    IF responses >= 1 /\ api[get_api_url].kind = "ok" THEN api[get_api_url].body ELSE <<>>

IsPullRequest(rec) == rec.pull_request # "absent"

NotPullRequest(rec) == rec.pull_request = "absent"

Failed(r) == r.kind \in {"status", "transport"}

\* The k-th response of this run.
ResponseAt(k) ==
    IF k = 1 THEN api[get_api_url] ELSE api[reactions_url(issues[k - 1].number)]

Ranked == {ranking[i][2] : i \in DOMAIN ranking}

IsPrefix(s, t) == Len(s) <= Len(t) /\ \A i \in DOMAIN s : s[i] = t[i]

----------------------------------------------------------------------------
\* C1: the printed ranking is in non-increasing score order: of two printed
\* entries, the earlier one never has the smaller score.
C1_Sorted ==
    pc = "done" =>
        \A i, j \in DOMAIN ranking : i < j => ranking[i][3] >= ranking[j][3]

\* A run in which the sort had to move an entry: the issue fetched first is
\* printed second, with the smaller score.
C1_Witness ==
    /\ pc = "done"
    /\ Len(ranking) = 2
    /\ Len(issues) = 2
    /\ ranking[2][2] = issues[1].number
    /\ ranking[1][3] > ranking[2][3]

\* C2: the final score of every issue in the map, and the score printed for
\* it, is the number of its fetched reactions that are "+1" minus the number
\* that are "-1"; any other content counts for nothing.
C2_Score ==
    pc = "done" =>
        /\ \A n \in DOMAIN map :
              map[n] = Count(Fetched(n), "+1") - Count(Fetched(n), "-1")
        /\ \A i \in DOMAIN ranking :
              ranking[i][3] = Count(Fetched(ranking[i][2]), "+1")
                              - Count(Fetched(ranking[i][2]), "-1")

\* An issue whose reactions mix a scoring content with another one.
C2_Witness ==
    /\ pc = "done"
    /\ \E n \in DOMAIN map : Fetched(n) = <<"laugh", "-1">> /\ map[n] = -1
    /\ \E n \in DOMAIN map : Fetched(n) = <<"+1", "+1">> /\ map[n] = 2

\* C3: an issue number is printed in the ranking if and only if at least one
\* reaction was fetched for it; reactions that sum to zero still give a line,
\* with score 0.
C3_Presence ==
    pc = "done" =>
        /\ \A n \in IssueNumbers : n \in Ranked <=> Fetched(n) # <<>>
        /\ \A i \in DOMAIN ranking :
              (Count(Fetched(ranking[i][2]), "+1") = Count(Fetched(ranking[i][2]), "-1"))
                  => ranking[i][3] = 0

\* One issue with no reaction is left out while another, whose reactions
\* cancel, is printed with 0.
C3_Witness ==
    /\ pc = "done"
    /\ Len(issues) = 2
    /\ \E i, j \in DOMAIN issues :
          /\ api[reactions_url(issues[i].number)] = [kind |-> "ok", body |-> <<>>, reset |-> NoHeader]
          /\ issues[i].number \notin Ranked
          /\ Fetched(issues[j].number) = <<"+1", "-1">>
          /\ ranking = <<(<<1, issues[j].number, 0>>)>>

\* C4: when the issues request fails (a non-2xx status with any headers, or
\* no response), get_issues yields an empty list and the run completes
\* normally: no reactions request, an empty ranking, never a panic.
C4_IssuesFailureContinues ==
    (responses >= 1 /\ Failed(api[get_api_url])) =>
        /\ pc # "panicked"
        /\ issues = <<>>
        /\ requests = <<get_api_url>>
        /\ ranking = <<>>

\* C5: a failed reactions request (non-2xx or no response) leaves the map as
\* it was, as an empty reaction list would, and the run goes on with the
\* next issue.
C5_Step ==
    (/\ pc = "await_reactions"
     /\ responses' = responses + 1
     /\ Failed(api'[reactions_url(issues[idx].number)]))
    => /\ map' = map
       /\ map' = tally(map, issues[idx].number, <<>>)
       /\ pc' = "loop"
       /\ idx' = idx + 1
       /\ UNCHANGED <<issues, requests, ranking>>

C5_ReactionsFailureSkipped == [][C5_Step]_vars

\* A finished run in which the reactions of one issue failed to fetch and
\* another issue was scored.
C5_Witness ==
    /\ pc = "done"
    /\ \E i, j \in DOMAIN issues :
          /\ api[reactions_url(issues[i].number)].kind = "status"
          /\ issues[i].number \notin DOMAIN map
          /\ issues[j].number \in DOMAIN map
          /\ map[issues[j].number] = 1

\* C6: once a 2xx response whose body does not decode has arrived, the run
\* has panicked at that response: nothing was requested or received after
\* it and no ranking line is printed.
C6_DecodeFailureFatal ==
    \A k \in 1..responses :
        ResponseAt(k).kind = "malformed" =>
            /\ pc = "panicked"
            /\ ranking = <<>>
            /\ responses = k
            /\ Len(requests) = k

\* The reactions of the second issue do not decode, after the first issue
\* was scored.
C6_Witness ==
    /\ pc = "panicked"
    /\ responses = 3
    /\ ResponseAt(3).kind = "malformed"
    /\ map # <<>>
    /\ ranking = <<>>

\* C7: while the credential is missing no request is ever sent: the run
\* panics before its first request.
C7_NoRequestWithoutToken ==
    ~token =>
        /\ requests = <<>>
        /\ responses = 0
        /\ pc \in {"start", "panicked"}

C7_Witness == ~token /\ pc = "panicked" /\ requests = <<>>

\* C8 as stated: a second run on the same API responses ends as the first
\* did, with the same scores and the same issue at every position of the
\* ranking.
C8_SameRanking ==
    (prev # NoRun /\ pc \in {"done", "panicked"}) =>
        /\ pc = prev.pc
        /\ map = prev.map
        /\ ranking = prev.ranking

\* C8 amended: a second run on the same API responses ends as the first did,
\* with the same scores, the same printed entries and the same score at
\* every position; only issues with equal scores may trade places.
C8_SameScores ==
    (prev # NoRun /\ pc \in {"done", "panicked"}) =>
        /\ pc = prev.pc
        /\ map = prev.map
        /\ Len(ranking) = Len(prev.ranking)
        /\ {<<ranking[i][2], ranking[i][3]>> : i \in DOMAIN ranking}
           = {<<prev.ranking[i][2], prev.ranking[i][3]>> : i \in DOMAIN prev.ranking}
        /\ \A i \in DOMAIN ranking :
              /\ ranking[i][3] = prev.ranking[i][3]
              /\ ranking[i][2] # prev.ranking[i][2] =>
                    map[ranking[i][2]] = map[prev.ranking[i][2]]

\* Two finished runs on the same responses whose rankings differ.
C8_Witness ==
    /\ prev # NoRun
    /\ pc = "done"
    /\ Len(ranking) = 2
    /\ ranking # prev.ranking

\* C9: every key of the map, every issue get_issues returned and every
\* reactions request is for a record of the issues response without a
\* pull_request object; a record with one, whatever is in it, gets none of
\* these.
C9_NoPullRequests ==
    /\ \A n \in DOMAIN map \cup Ranked :
          \E i \in DOMAIN Returned : Returned[i].number = n /\ NotPullRequest(Returned[i])
    /\ \A i \in DOMAIN Returned :
          IsPullRequest(Returned[i]) =>
              /\ Returned[i].number \notin DOMAIN map
              /\ \A j \in DOMAIN issues : issues[j] # Returned[i]
              /\ \A j \in DOMAIN requests : requests[j] # reactions_url(Returned[i].number)

\* A finished run whose issues response held a pull request with an empty
\* object next to an issue that was scored.
C9_Witness ==
    /\ pc = "done"
    /\ Len(Returned) = 2
    /\ \E i, j \in DOMAIN Returned :
          /\ Returned[i].pull_request = "empty_object"
          /\ Returned[j].number \in DOMAIN map

\* The requests a complete run sends: the issues request, then one reactions
\* request per returned record that is no pull request, in the order returned.
ExpectedRequests ==
    <<get_api_url>>
    \o [i \in DOMAIN SelectSeq(Returned, NotPullRequest) |->
          reactions_url(SelectSeq(Returned, NotPullRequest)[i].number)]

\* C10: the requests sent are, in order, the issues request and then one
\* reactions request per non-pull-request issue in the order returned; none
\* is sent twice, at most one is unanswered at any time, and a run that
\* finishes has sent them all.
C10_Sequential ==
    /\ IsPrefix(requests, ExpectedRequests)
    /\ Len(requests) - responses \in {0, 1}
    /\ Len(requests) - responses = 1 <=> pc \in {"await_issues", "await_reactions"}
    /\ \A i, j \in DOMAIN requests : i # j => requests[i] # requests[j]
    /\ pc = "done" => requests = ExpectedRequests

\* A finished run of three requests in which the first reactions request
\* failed and the second issue was fetched next.
C10_Witness ==
    /\ pc = "done"
    /\ Len(requests) = 3
    /\ responses = 3
    /\ Failed(ResponseAt(2))
    /\ ResponseAt(3).kind = "ok"
    /\ requests = <<get_api_url, reactions_url(Returned[1].number),
                    reactions_url(Returned[2].number)>>

====
